---- MODULE Spec2Model ----
(***************************************************************************)
(* Model of the movie recommender (src/src/main.rs) and of the per-user    *)
(* ranking (src/movies/src/top_movies.rs).                                 *)
(*                                                                         *)
(* Numbers.  The program computes in f32.  The model computes in f32 too:  *)
(* a non-negative f32 is the integer of its IEEE-754 bit pattern (1.0 is   *)
(* 127 * 2^23), so the order of the integers is the order of the values,   *)
(* and every operation rounds to nearest, ties to even, subnormal results, *)
(* overflow to infinity and NaN included.  Rating scores are not negative, *)
(* so no negative value arises.                                            *)
(*                                                                         *)
(* Maps.  A HashMap is a function whose DOMAIN is its key set.  The order  *)
(* in which a HashMap is iterated is not specified by the language (it     *)
(* follows the per-map random hash seed): the map of user vectors carries  *)
(* its iteration order as the separate variable uorder, chosen when the    *)
(* map is built.                                                           *)
(***************************************************************************)
EXTENDS Integers, Sequences, FiniteSets, TLC

\* ------------------------------------------------------------------ bounds
\* Longest rating sequence load_ratings reads when the records come in any
\* order.
MaxRatings == 3
\* Longest rating sequence read from a file sorted by user id, then movie id.
MaxSorted == 5
\* Most records that follow the crowd's common records.
MaxExtra == 2

\* --------------------------------------------------------------- constants
\* let k = 5;
K == 5
\* let top_n = 5;
MainTopN == 5
\* let user_id = 1;
MainUser == 1

\* --------------------------------------------------------------------- f32
\* The weight of the exponent field in the bit pattern, which is also the
\* implicit leading bit of a normal significand.
Hidden == 2 ^ 23
\* +infinity (0x7F800000) and the NaN that 0.0 / 0.0 yields, as far as the
\* program can tell NaNs apart: every pattern above Inf is a NaN.
Inf == 255 * Hidden
NaN == Inf + 2 ^ 22
\* 1.0 and 2.0
One == 127 * Hidden
Two == 128 * Hidden

IsNaN(x) == x > Inf

Min(a, b) == IF a <= b THEN a ELSE b
Max(a, b) == IF a >= b THEN a ELSE b

\* A finite x is Significand(x) * 2^(Exponent(x) - 150); a subnormal has the
\* exponent of the smallest normal and no implicit bit.
Significand(x) == IF x < Hidden THEN x ELSE Hidden + (x % Hidden)
Exponent(x) == IF x < Hidden THEN 1 ELSE x \div Hidden

RECURSIVE Normalise(_, _)
\* The same value m * 2^(e - 150), m > 0, with m of 24 bits.
Normalise(m, e) ==
  IF m >= Hidden THEN [m |-> m, e |-> e] ELSE Normalise(2 * m, e - 1)

Unpack(x) == Normalise(Significand(x), Exponent(x))

\* Round to nearest, ties to even: the quotient q is rounded up when the
\* remainder rem, with something more after it if sticky, is above half.
RoundUp(q, rem, half, sticky) ==
  rem > half \/ (rem = half /\ (sticky \/ (q % 2) = 1))

\* The bit pattern of sig * 2^(e - 152) rounded at bit sh of sig.
RoundAt(e, sig, sticky, sh) ==
  Min(((Max(e, 1) - 1) * Hidden) + (sig \div (2 ^ sh))
        + (IF RoundUp(sig \div (2 ^ sh), sig % (2 ^ sh), 2 ^ (sh - 1), sticky)
           THEN 1 ELSE 0),
      Inf)

\* The f32 nearest to sig * 2^(e - 152) + t, where 0 < t < 2^(e - 152) if
\* sticky and t = 0 if not.  sig < 2^26, and sig >= 2^25 unless e <= 0.  A
\* result below the normal range is rounded at the subnormal unit.
RoundPack(e, sig, sticky) ==
  IF e >= 255 THEN Inf
  ELSE RoundAt(e, sig, sticky, IF e >= 1 THEN 2 ELSE Min(3 - e, 27))

\* The 48-bit product hi * 2^24 + lo of two 24-bit significands, rounded.
MulPack(e, hi, lo) ==
  IF hi >= Hidden
  THEN RoundPack(e - 126, (hi * 4) + (lo \div (2 ^ 22)), (lo % (2 ^ 22)) # 0)
  ELSE RoundPack(e - 127, (hi * 8) + (lo \div (2 ^ 21)), (lo % (2 ^ 21)) # 0)

\* high * 2^24 + low, the carry of low moved into the high part.
MulCarry(e, high, low) == MulPack(e, high + (low \div (2 ^ 24)), low % (2 ^ 24))

\* (x1 * 2^12 + x0) * (y1 * 2^12 + y0) from the partial products.
MulSum(e, high, mid, low) ==
  MulCarry(e, high + (mid \div (2 ^ 12)), ((mid % (2 ^ 12)) * (2 ^ 12)) + low)

MulSplit(e, x1, x0, y1, y0) == MulSum(e, x1 * y1, (x1 * y0) + (x0 * y1), x0 * y0)

MulUnpacked(x, y) ==
  MulSplit(x.e + y.e, x.m \div (2 ^ 12), x.m % (2 ^ 12), y.m \div (2 ^ 12), y.m % (2 ^ 12))

\* f32 multiplication.
FMul(a, b) ==
  IF IsNaN(a) \/ IsNaN(b) THEN NaN
  ELSE IF a = Inf \/ b = Inf THEN (IF a = 0 \/ b = 0 THEN NaN ELSE Inf)
  ELSE IF a = 0 \/ b = 0 THEN 0
  ELSE MulUnpacked(Unpack(a), Unpack(b))

RECURSIVE LongDiv(_, _, _, _)
\* Long division: n more quotient bits after the quotient q with remainder
\* r < d, at most 7 bits a step.
LongDiv(q, r, d, n) ==
  IF n = 0 THEN [q |-> q, r |-> r]
  ELSE LongDiv((q * (2 ^ Min(n, 7))) + ((r * (2 ^ Min(n, 7))) \div d),
               (r * (2 ^ Min(n, 7))) % d, d, n - Min(n, 7))

\* The quotient d.q of 26 or 27 bits with remainder d.r, rounded.
DivPack(e, d) ==
  IF d.q >= 2 ^ 26
  THEN RoundPack(e + 127, d.q \div 2, (d.q % 2) # 0 \/ d.r # 0)
  ELSE RoundPack(e + 126, d.q, d.r # 0)

DivUnpacked(x, y) == DivPack(x.e - y.e, LongDiv(x.m \div y.m, x.m % y.m, y.m, 26))

\* f32 division.
FDiv(a, b) ==
  IF IsNaN(a) \/ IsNaN(b) THEN NaN
  ELSE IF a = Inf THEN (IF b = Inf THEN NaN ELSE Inf)
  ELSE IF b = Inf THEN 0
  ELSE IF b = 0 THEN (IF a = 0 THEN NaN ELSE Inf)
  ELSE IF a = 0 THEN 0
  ELSE DivUnpacked(Unpack(a), Unpack(b))

\* The sum of 27 or 28 bits (26 or less when both terms are subnormal),
\* rounded.
AddPack(e, sum, sticky) ==
  IF sum >= 2 ^ 27 THEN RoundPack(e + 1, sum \div 4, sticky \/ (sum % 4) # 0)
  ELSE IF sum >= 2 ^ 26 THEN RoundPack(e, sum \div 2, sticky \/ (sum % 2) # 0)
  ELSE RoundPack(e - 1, sum, sticky)

\* The smaller term's significand is shifted right by the difference d of the
\* exponents; the bits shifted out are remembered as sticky.
AddAligned(e, mbig, msmall, d) ==
  AddPack(e, mbig + (IF d > 27 THEN 0 ELSE msmall \div (2 ^ d)),
          IF d > 27 THEN TRUE ELSE (msmall % (2 ^ d)) # 0)

\* The significands are taken with three more bits.
AddOrdered(big, small) ==
  AddAligned(Exponent(big), Significand(big) * 8, Significand(small) * 8,
             Exponent(big) - Exponent(small))

\* f32 addition.
FAdd(a, b) ==
  IF IsNaN(a) \/ IsNaN(b) THEN NaN
  ELSE IF a = Inf \/ b = Inf THEN Inf
  ELSE IF a = 0 THEN b
  ELSE IF b = 0 THEN a
  ELSE AddOrdered(Max(a, b), Min(a, b))

RECURSIVE SqrtNewton(_, _)
\* Integer Newton iteration from x >= floor(sqrt(n)), for n > 0: floor(sqrt(n)).
SqrtNewton(n, x) ==
  IF (x + (n \div x)) \div 2 >= x THEN x ELSE SqrtNewton(n, (x + (n \div x)) \div 2)

RECURSIVE SqrtBits(_, _, _)
\* Digit-by-digit square root: n more bits of the root after the root so far
\* with remainder rem, the radicand continued with zeros.
SqrtBits(root, rem, n) ==
  IF n = 0 THEN [root |-> root, rem |-> rem]
  ELSE IF 4 * rem >= (4 * root) + 1
       THEN SqrtBits((2 * root) + 1, (4 * rem) - ((4 * root) + 1), n - 1)
       ELSE SqrtBits(2 * root, 4 * rem, n - 1)

\* The root s.root of 26 bits with remainder s.rem, rounded.
SqrtPack(e, s) == RoundPack(e, s.root, s.rem # 0)

\* The root of n from its integer part r, continued by 13 bits.
SqrtFrom(e, n, r) == SqrtPack(e, SqrtBits(r, n - (r * r), 13))

\* The root of n * 2^(2 * e - 278), 2^24 <= n < 2^26.
SqrtScaled(e, n) == SqrtFrom(e, n, SqrtNewton(n, 2 ^ 13))

\* The significand is scaled to 25 or 26 bits, which leaves an even exponent.
SqrtUnpacked(x) ==
  IF (x.e % 2) = 0 THEN SqrtScaled((x.e + 126) \div 2, 4 * x.m)
  ELSE SqrtScaled((x.e + 127) \div 2, 2 * x.m)

\* f32 square root.
FSqrt(a) ==
  IF IsNaN(a) THEN NaN
  ELSE IF a = Inf THEN Inf
  ELSE IF a = 0 THEN 0
  ELSE SqrtUnpacked(Unpack(a))

\* ------------------------------------------------------------------- inputs
\* User ids that rate, and one id that never does.
Users == {1, 2, 3}
Pair == {1, 2}
Absent == {9}
\* Movie ids (not consecutive: an id is not its index).
Movies == {10, 11, 12}
\* Rating scores: 0.0, 1.0, 2.0.
Scores == {0, One, Two}
\* Timestamps.
Timestamps == {100, 200}
\* Values of top_n the calls are made with.
TopNs == {0, 1, 5}

\* ------------------------------------------------------------- collections
Range(s) == {s[i] : i \in DOMAIN s}

\* collect(): the elements of an iterator, evaluated into a vector.
Collect(s) == s \o <<>>

\* iter().take(n)
Take(s, n) == SubSeq(s, 1, Min(n, Len(s)))

\* slice::sort_by: a stable sort; before[<<a, b>>] says the comparator orders
\* a strictly before b.  Each element is inserted after the elements it is
\* not strictly before, so equal elements keep their input order.
SortBy(s, before) ==
  LET F[n \in 0..Len(s)] ==
        IF n = 0 THEN <<>>
        ELSE LET prev == F[n - 1]
                 x == s[n]
                 p == Cardinality({i \in 1..Len(prev) : ~before[<<x, prev[i]>>]})
             IN SubSeq(prev, 1, p) \o <<x>> \o SubSeq(prev, p + 1, Len(prev))
  IN F[Len(s)]

\* Vec::dedup: removes consecutive repeated elements.
Dedup(s) ==
  LET F[n \in 0..Len(s)] ==
        IF n = 0 THEN <<>>
        ELSE IF n > 1 /\ s[n] = s[n - 1] THEN F[n - 1]
        ELSE Append(F[n - 1], s[n])
  IN F[Len(s)]

\* The elements of a set of integers in ascending order.
RECURSIVE Ascending(_)
Ascending(S) ==
  IF S = {} THEN <<>>
  ELSE LET x == CHOOSE y \in S : \A z \in S : y <= z
       IN <<x>> \o Ascending(S \ {x})

RECURSIVE IterOrders(_)
\* The orders in which the keys S of a HashMap are iterated: any order can
\* occur.
IterOrders(S) ==
  IF S = {} THEN {<<>>}
  ELSE UNION {{<<x>> \o o : o \in IterOrders(S \ {x})} : x \in S}

\* ---------------------------------------------------------------- ratings
\* struct Rating
Rating(u, m, s, t) == [user_id |-> u, movie_id |-> m, rating |-> s, timestamp |-> t]

\* mids: ratings.iter().map(|r| r.movie_id).collect(); sort_unstable(); dedup()
SortedMids(ratings) ==
  LET ids == Collect([i \in DOMAIN ratings |-> ratings[i].movie_id])
  IN SortBy(ids, [p \in Range(ids) \X Range(ids) |-> p[1] < p[2]])

\* The movie ids deduplicated without the sort before.
MidsUnsorted(ratings) == Dedup([i \in DOMAIN ratings |-> ratings[i].movie_id])

Mids(ratings) == Dedup(SortedMids(ratings))

\* pos: mids.iter().copied().enumerate().map(|(i, id)| (id, i)).collect()
\* (collecting into a HashMap keeps the last value inserted for a key).
Pos(mids) ==
  [id \in Range(mids) |->
     (CHOOSE i \in DOMAIN mids :
        mids[i] = id /\ \A j \in DOMAIN mids : mids[j] = id => j <= i) - 1]

\* DVector::from_element(m, 0.0)
ZeroVector(m) == [i \in 1..m |-> 0]

\* The pass that keeps a rating already written: the first record of a
\* (user, movie) pair wins.
SetRatingOnce(map, pos, m, r) ==
  LET old == IF r.user_id \in DOMAIN map THEN map[r.user_id] ELSE ZeroVector(m)
      new == IF old[pos[r.movie_id] + 1] = 0
             THEN [old EXCEPT ![pos[r.movie_id] + 1] = r.rating]
             ELSE old
  IN [u \in DOMAIN map \cup {r.user_id} |-> IF u = r.user_id THEN new ELSE map[u]]

\* One pass of the loop of build_user_vectors over r:
\*   let vec = map.entry(r.user_id).or_insert_with(|| zero vector);
\*   vec[pos[&r.movie_id]] = r.rating;
SetRating(map, pos, m, r) ==
  LET old == IF r.user_id \in DOMAIN map THEN map[r.user_id] ELSE ZeroVector(m)
      new == [old EXCEPT ![pos[r.movie_id] + 1] = r.rating]
  IN [u \in DOMAIN map \cup {r.user_id} |-> IF u = r.user_id THEN new ELSE map[u]]

\* fn build_user_vectors(ratings: &[Rating]) -> RatingMap
BuildUserVectorsOf(ratings) ==
  LET mids == Mids(ratings)
      m == Len(mids)
      pos == Pos(mids)
      F[n \in 0..Len(ratings)] ==
        IF n = 0 THEN << >>
        ELSE SetRating(F[n - 1], pos, m, ratings[n])
  IN F[Len(ratings)]

\* fn build_popularity_map(ratings: &[Rating]) -> HashMap<u32, usize>
BuildPopularityMapOf(ratings) ==
  LET F[n \in 0..Len(ratings)] ==
        IF n = 0 THEN << >>
        ELSE LET prev == F[n - 1]
                 id == ratings[n].movie_id
                 old == IF id \in DOMAIN prev THEN prev[id] ELSE 0
             IN [k \in DOMAIN prev \cup {id} |-> IF k = id THEN old + 1 ELSE prev[k]]
  IN F[Len(ratings)]

RECURSIVE Accumulated(_, _, _, _)
\* Accumulator j (1..8) of a.dot(b) after c blocks of eight rows.
Accumulated(a, b, j, c) ==
  IF c = 0 THEN 0
  ELSE FAdd(Accumulated(a, b, j, c - 1), FMul(a[(8 * (c - 1)) + j], b[(8 * (c - 1)) + j]))

RECURSIVE Paired(_, _, _, _)
\* The result after the accumulators j and j + 4 are added to it, for the
\* first n pairs.
Paired(a, b, blocks, n) ==
  IF n = 0 THEN 0
  ELSE FAdd(Paired(a, b, blocks, n - 1),
            FAdd(Accumulated(a, b, n, blocks), Accumulated(a, b, n + 4, blocks)))

RECURSIVE DotUpTo(_, _, _)
\* a.dot(b) over the rows 1..i: nalgebra takes the rows eight at a time into
\* eight accumulators, adds these in pairs to the result, and adds the
\* products of the rows left over one by one.
DotUpTo(a, b, i) ==
  IF i = 8 * (Len(a) \div 8)
  THEN (IF i = 0 THEN 0 ELSE Paired(a, b, Len(a) \div 8, 4))
  ELSE FAdd(DotUpTo(a, b, i - 1), FMul(a[i], b[i]))

\* a.dot(b)
Dot(a, b) == DotUpTo(a, b, Len(a))

\* a.norm()
Norm(a) == FSqrt(Dot(a, a))

\* if na == 0.0 || nb == 0.0 { 0.0 } else { dot / (na * nb) }
CosineOf(dot, na, nb) == IF na = 0 \/ nb = 0 THEN 0 ELSE FDiv(dot, FMul(na, nb))

\* fn cosine_similarity(a: &DVector<f32>, b: &DVector<f32>) -> f32
CosineSimilarity(a, b) == CosineOf(Dot(a, b), Norm(a), Norm(b))

\* Step 1 of recommend_movies, before the sort: the (uid, similarity) pairs of
\* the other users, in the iteration order of uvecs.
SimsOf(user_id, vecs, order) ==
  LET others == SelectSeq(order, LAMBDA uid : uid # user_id)
  IN Collect([i \in DOMAIN others |->
        [uid |-> others[i], sim |-> CosineSimilarity(vecs[user_id], vecs[others[i]])]])

\* The comparator of sims.sort_by: b.1.partial_cmp(&a.1), descending similarity.
SimBefore(a, b) == a.sim > b.sim

\* sims.iter().take(k)
Neighbours(sims) == Take(sims, K)

\* The records the two nested loops of step 2 visit, in the order they visit
\* them: for each neighbour in turn, its rating records in sequence order,
\* those on a movie where target[pos[&r.movie_id]] == 0.0.
Contributions(sel, rs, target, pos) ==
  LET F[n \in 0..Len(sel)] ==
        IF n = 0 THEN <<>>
        ELSE LET idx == SelectSeq([i \in DOMAIN rs |-> i],
                                  LAMBDA i : /\ rs[i].user_id = sel[n].uid
                                             /\ target[pos[rs[i].movie_id] + 1] = 0)
             IN F[n - 1] \o [j \in DOMAIN idx |->
                               [movie_id |-> rs[idx[j]].movie_id,
                                sim |-> sel[n].sim,
                                rating |-> rs[idx[j]].rating]]
  IN F[Len(sel)]

\* *map.entry(key).or_default() += x
AddEntry(map, key, x) ==
  [k \in DOMAIN map \cup {key} |->
     IF k = key THEN FAdd(IF key \in DOMAIN map THEN map[key] ELSE 0, x) ELSE map[k]]

\* The score term without its weight.
ScoreTermUnweighted(c) == c.rating

\* *scores.entry(r.movie_id).or_default() += sim * r.rating;
ScoreTerm(c) == FMul(c.sim, c.rating)

\* *weights.entry(r.movie_id).or_default() += sim;
WeightTerm(c) == c.sim

\* The maps scores and weights after step 2.
Aggregate(contribs) ==
  LET F[n \in 0..Len(contribs)] ==
        IF n = 0 THEN [scores |-> << >>, weights |-> << >>]
        ELSE LET c == contribs[n]
             IN [scores |-> AddEntry(F[n - 1].scores, c.movie_id, ScoreTerm(c)),
                 weights |-> AddEntry(F[n - 1].weights, c.movie_id, WeightTerm(c))]
  IN F[Len(contribs)]

\* scores.into_iter().filter_map(|(mid, sc)| weights.get(&mid).map(|&w| (mid, sc / w)))
\* The order in which scores is iterated is not specified; the model lists the
\* movies in ascending order.  The sort that follows either panics, whatever
\* the order, or sorts by a comparator under which no two entries are equal
\* (its last key is the movie id), so the order has no effect past the sort.
PredsOf(agg) ==
  LET keys == Ascending(DOMAIN agg.scores \cap DOMAIN agg.weights)
  IN Collect([i \in DOMAIN keys |->
        [mid |-> keys[i], score |-> FDiv(agg.scores[keys[i]], agg.weights[keys[i]])]])

\* The comparator without the popularity key.
PredBeforeNoPopularity(a, b, popmap) ==
  \/ a.score > b.score
  \/ a.score = b.score /\ a.mid < b.mid

\* The comparator of preds.sort_by:
\*   b.1.partial_cmp(&a.1).unwrap().then_with(|| pop[&b.0].cmp(&pop[&a.0])).then(a.0.cmp(&b.0))
PredBefore(a, b, popmap) ==
  \/ a.score > b.score
  \/ /\ a.score = b.score
     /\ \/ popmap[a.mid] > popmap[b.mid]
        \/ popmap[a.mid] = popmap[b.mid] /\ a.mid < b.mid

\* partial_cmp(..).unwrap() panics when an operand is NaN.  A sort of two or
\* more elements compares every element with another one at least once; a
\* sort of fewer elements compares nothing.  keys are the f32 keys of the
\* elements sorted.
SortPanics(keys) == Len(keys) >= 2 /\ \E i \in DOMAIN keys : IsNaN(keys[i])

\* A lookup that yields no target and an empty list.
MissingUserEmpty(user_id) ==
  [status |-> "ok", at |-> "", sims |-> <<>>, sel |-> <<>>,
   scores |-> << >>, weights |-> << >>, preds |-> <<>>, out |-> <<>>]

\* let target = &uvecs[&user_id]; for a user_id that is no key of uvecs:
\* HashMap's Index panics, and the call returns nothing.
MissingUser(user_id) ==
  [status |-> "panic", at |-> "uvecs[&user_id]", sims |-> <<>>, sel |-> <<>>,
   scores |-> << >>, weights |-> << >>, preds |-> <<>>, out |-> <<>>]

\* sims.sort_by(|a, b| b.1.partial_cmp(&a.1).unwrap())
SortSims(unsorted) ==
  SortBy(unsorted, [p \in Range(unsorted) \X Range(unsorted) |-> SimBefore(p[1], p[2])])

\* preds.sort_by(..)
SortPreds(preds, popmap) ==
  SortBy(preds, [p \in Range(preds) \X Range(preds) |-> PredBefore(p[1], p[2], popmap)])

\* Step 3 of recommend_movies, the sort of preds: the outcome so far ("ok":
\* preds is sorted; "panic": the call unwinds) and the locals of the call.
WithPreds(sims, sel, agg, preds, popmap) ==
  IF SortPanics([i \in DOMAIN preds |-> preds[i].score])
  THEN [status |-> "panic", at |-> "preds partial_cmp.unwrap", sims |-> sims,
        sel |-> sel, scores |-> agg.scores, weights |-> agg.weights,
        preds |-> preds, out |-> <<>>]
  ELSE [status |-> "ok", at |-> "", sims |-> sims, sel |-> sel,
        scores |-> agg.scores, weights |-> agg.weights,
        preds |-> SortPreds(preds, popmap), out |-> <<>>]

\* Step 3, the predictions from the two maps.
WithSums(sims, sel, agg, popmap) == WithPreds(sims, sel, agg, PredsOf(agg), popmap)

\* Step 2, over the selected neighbours.
WithNeighbours(sims, sel, target, pos, rs, popmap) ==
  WithSums(sims, sel, Aggregate(Contributions(sel, rs, target, pos)), popmap)

\* Step 2, the selection: sims.iter().take(k)
WithSorted(sims, target, pos, rs, popmap) ==
  WithNeighbours(sims, Neighbours(sims), target, pos, rs, popmap)

\* Step 1, the sort of sims, and what follows it.
WithSims(unsorted, target, pos, rs, popmap) ==
  IF SortPanics([i \in DOMAIN unsorted |-> unsorted[i].sim])
  THEN [status |-> "panic", at |-> "sims partial_cmp.unwrap", sims |-> unsorted,
        sel |-> <<>>, scores |-> << >>, weights |-> << >>, preds |-> <<>>,
        out |-> <<>>]
  ELSE WithSorted(SortSims(unsorted), target, pos, rs, popmap)

\* recommend_movies up to its last statement.
Predict(user_id, vecs, order, rs, popmap) ==
  IF user_id \notin DOMAIN vecs
  THEN MissingUser(user_id)
  ELSE WithSims(SimsOf(user_id, vecs, order), vecs[user_id], Pos(Mids(rs)), rs, popmap)

\* preds.into_iter().take(top_n).map(|(mid, _)| mid).collect()
Returned(p, top_n) ==
  IF p.status = "ok"
  THEN [p EXCEPT !.out = Collect([i \in 1..Min(top_n, Len(p.preds)) |-> p.preds[i].mid])]
  ELSE p

\* fn recommend_movies(user_id, uvecs, ratings, pop, top_n) -> Vec<u32>
\* The result is a record of the outcome ("ok": out is returned; "panic": the
\* call unwinds) and of the locals of the call.
RecommendMovies(user_id, vecs, order, rs, popmap, top_n) ==
  Returned(Predict(user_id, vecs, order, rs, popmap), top_n)

\* The comparator without the timestamp key.
SeenBeforeNoRecency(a, b) == a.rating > b.rating

\* The comparator of seen.sort_by: b.1.partial_cmp(&a.1).unwrap().then(b.2.cmp(&a.2)),
\* rating descending, then timestamp descending.
SeenBefore(a, b) ==
  \/ a.rating > b.rating
  \/ a.rating = b.rating /\ a.timestamp > b.timestamp

\* seen.into_iter().take(top_n).map(|(mid, rating, _)| (mid, rating)).collect()
TopOf(sorted, top_n) ==
  Collect([i \in 1..Min(top_n, Len(sorted)) |->
             <<sorted[i].movie_id, sorted[i].rating>>])

\* seen.sort_by(..) and what follows it: the sort panics at
\* partial_cmp(..).unwrap() when a rating is NaN and two or more records are
\* compared, and the call returns nothing.
SortSeen(seen, top_n) ==
  IF SortPanics([i \in DOMAIN seen |-> seen[i].rating])
  THEN [status |-> "panic", seen |-> seen, out |-> <<>>]
  ELSE [status |-> "ok",
        seen |-> SortBy(seen, [p \in Range(seen) \X Range(seen) |->
                                 SeenBefore(p[1], p[2])]),
        out |-> TopOf(SortBy(seen, [p \in Range(seen) \X Range(seen) |->
                                      SeenBefore(p[1], p[2])]), top_n)]

\* pub fn top_movies(user_id: u32, ratings: &[Rating], top_n: usize) -> Vec<(u32, f32)>
\* The result is a record of the outcome ("ok": out is returned; "panic": the
\* call unwinds), of the local seen (sorted when the sort completed) and of
\* the returned vector.
TopMoviesOf(user_id, rs, top_n) ==
  SortSeen(SelectSeq(rs, LAMBDA r : r.user_id = user_id), top_n)

VARIABLES
  ratings,   \* the Vec<Rating> of load_ratings
  phase,     \* where main stands
  index,     \* pos, the movie index of build_user_vectors
  uvecs,     \* user_vectors
  uorder,    \* the iteration order of user_vectors
  pop,       \* popularity
  call       \* the last call of recommend_movies or top_movies and its result

vars == <<ratings, phase, index, uvecs, uorder, pop, call>>

\* No call made yet.
NoCall == [fn |-> "none"]

\* Every user of the crowd has rated movie 10 with 1.0: K + 1 other users for
\* any of them, all with the same vector.
Crowd == 1..(K + 2)
CrowdRatings == [i \in Crowd |-> Rating(i, 10, One, 100)]

InitWith(rs) ==
  /\ ratings = rs
  /\ phase = "load"
  /\ index = << >>
  /\ uvecs = << >>
  /\ uorder = <<>>
  /\ pop = << >>
  /\ call = NoCall

Init == InitWith(<<>>)

InitCrowd == InitWith(CrowdRatings)

\* load_ratings: ratings.push(rec?), while fewer than max records are read.
Load(max, U, M, S, T) ==
  /\ phase = "load"
  /\ Len(ratings) < max
  /\ \E u \in U, m \in M, s \in S, t \in T :
       ratings' = Append(ratings, Rating(u, m, s, t))
  /\ UNCHANGED <<phase, index, uvecs, uorder, pop, call>>

\* Records in any order, duplicates included.
LoadRatings == Load(MaxRatings, Pair, Movies, Scores, {100})

\* Records with their timestamps, in any order.
LoadTimed == Load(MaxRatings, Pair, {10, 11}, {One, Two}, Timestamps)

\* Records that follow the crowd's.
LoadExtra == Load(Len(CrowdRatings) + MaxExtra, {2, 3}, {11, 12}, {One}, {100})

\* A record of user u on movie m keeps rs sorted by user id, then movie id.
KeepsSorted(rs, u, m) ==
  IF rs = <<>> THEN TRUE
  ELSE LET r == rs[Len(rs)]
       IN r.user_id < u \/ (r.user_id = u /\ r.movie_id < m)

\* Records of a file sorted by user id, then movie id, no (user, movie) pair
\* twice.
LoadSorted ==
  /\ phase = "load"
  /\ Len(ratings) < MaxSorted
  /\ \E u \in Users, m \in Movies, s \in {One, Two} :
       /\ KeepsSorted(ratings, u, m)
       /\ ratings' = Append(ratings, Rating(u, m, s, 100))
  /\ UNCHANGED <<phase, index, uvecs, uorder, pop, call>>

\* let user_vectors = build_user_vectors(&ratings);
BuildUserVectors ==
  /\ phase = "load"
  /\ index' = Pos(Mids(ratings))
  /\ uvecs' = BuildUserVectorsOf(ratings)
  /\ uorder' \in IterOrders(DOMAIN uvecs')
  /\ phase' = "vectors"
  /\ UNCHANGED <<ratings, pop, call>>

\* let popularity = build_popularity_map(&ratings);
BuildPopularityMap ==
  /\ phase = "vectors"
  /\ pop' = BuildPopularityMapOf(ratings)
  /\ phase' = "ready"
  /\ UNCHANGED <<ratings, index, uvecs, uorder, call>>

\* let recs = recommend_movies(user_id, &user_vectors, &ratings, &popularity, top_n);
RecommendCall(U, N) ==
  /\ phase = "ready"
  /\ \E user_id \in U :
       LET p == Predict(user_id, uvecs, uorder, ratings, pop)
       IN \E top_n \in N :
            call' = [fn |-> "recommend_movies", user_id |-> user_id, top_n |-> top_n,
                     res |-> Returned(p, top_n)]
  /\ phase' = "recommended"
  /\ UNCHANGED <<ratings, index, uvecs, uorder, pop>>

\* main's call, for any user id.
RecommendMain == RecommendCall(Users \cup Absent, {MainTopN})

\* The call for main's user id or an id that never rates, and any top_n.
Recommend == RecommendCall({MainUser} \cup Absent, TopNs)

\* main's call: let user_id = 1; let top_n = 5;
RecommendCrowd == RecommendCall({MainUser}, {MainTopN})

\* top_movies(user_id, &ratings, top_n), called on the records read so far: the
\* function reads ratings only, so the steps main takes between load_ratings
\* and the call do not change its result.
TopMovies ==
  /\ phase = "load"
  /\ \E user_id \in Users \cup Absent, top_n \in TopNs :
       call' = [fn |-> "top_movies", user_id |-> user_id, top_n |-> top_n,
                res |-> TopMoviesOf(user_id, ratings, top_n)]
  /\ phase' = "done"
  /\ UNCHANGED <<ratings, index, uvecs, uorder, pop>>

\* main on rating records in any order.
Next == LoadRatings \/ BuildUserVectors \/ BuildPopularityMap \/ RecommendMain

Spec == Init /\ [][Next]_vars

\* recommend_movies on a sorted rating file.
NextRank == LoadSorted \/ BuildUserVectors \/ BuildPopularityMap \/ Recommend

SpecRank == Init /\ [][NextRank]_vars

\* main with more than K other users.
NextWide == LoadExtra \/ BuildUserVectors \/ BuildPopularityMap \/ RecommendCrowd

SpecWide == InitCrowd /\ [][NextWide]_vars

\* top_movies on timestamped records in any order.
NextTop == LoadTimed \/ TopMovies

SpecTop == Init /\ [][NextTop]_vars

\* ------------------------------------------------------------------ claims
IsRecommend == call.fn = "recommend_movies"
IsTopMovies == call.fn = "top_movies"
\* recommend_movies was called for a user that is a key of uvecs.
FoundTarget == IsRecommend /\ call.user_id \in DOMAIN uvecs

\* The distinct movie ids and user ids of the rating sequence.
MovieIds == {ratings[i].movie_id : i \in DOMAIN ratings}
UserIds == {ratings[i].user_id : i \in DOMAIN ratings}
\* The positions of the records of user u, and of those on movie m.
RecordsOf(u) == {i \in DOMAIN ratings : ratings[i].user_id = u}
RecordsOn(u, m) == {i \in RecordsOf(u) : ratings[i].movie_id = m}
\* The number of records on movie m.
CountOf(m) == Cardinality({i \in DOMAIN ratings : ratings[i].movie_id = m})
\* The rank of movie id m among the distinct movie ids.
RankOf(m) == Cardinality({d \in MovieIds : d < m})

\* C1: no movie the target user has a rating record for, whatever its score,
\* is in the list recommend_movies returns.
C1_RatedNeverRecommended ==
  (IsRecommend /\ call.res.status = "ok") =>
    \A i \in RecordsOf(call.user_id) : ratings[i].movie_id \notin Range(call.res.out)

\* C2: a movie whose accumulated weight is 0.0 is left out of the predictions,
\* no predicted score is NaN and the call does not panic.
C2_ZeroWeightExcluded ==
  FoundTarget =>
    /\ call.res.status = "ok"
    /\ \A i \in DOMAIN call.res.preds : ~IsNaN(call.res.preds[i].score)
    /\ \A m \in DOMAIN call.res.weights :
         call.res.weights[m] = 0 =>
           /\ m \notin {call.res.preds[i].mid : i \in DOMAIN call.res.preds}
           /\ m \notin Range(call.res.out)

\* The elements of a sequence in reverse order.
Reverse(s) == [i \in DOMAIN s |-> s[Len(s) + 1 - i]]

\* Two calls end alike: both return the same list or both panic.
SameOutcome(r, s) == r.status = s.status /\ r.out = s.out

\* C3: the same call (the same ratings, user and top_n) on the same map
\* iterated in another order, the ascending or the descending order of its
\* keys, has the same outcome and returns the same list.
C3_SameCallSameList ==
  FoundTarget =>
    \A o \in {Ascending(DOMAIN uvecs), Reverse(Ascending(DOMAIN uvecs))} :
      SameOutcome(call.res,
                  RecommendMovies(call.user_id, uvecs, o, ratings, pop, call.top_n))

\* The predicted score of movie m, from the two maps of the call.
PredictedScore(m) == FDiv(call.res.scores[m], call.res.weights[m])
\* Movie a ranks strictly before movie b: predicted score descending, then
\* number of rating records descending, then movie id ascending.
RanksBefore(a, b) ==
  \/ PredictedScore(a) > PredictedScore(b)
  \/ /\ PredictedScore(a) = PredictedScore(b)
     /\ \/ CountOf(a) > CountOf(b)
        \/ CountOf(a) = CountOf(b) /\ a < b

\* C4: the returned list holds min(top_n, number of predicted movies) distinct
\* predicted movies, each entry ranks strictly before the next, and every
\* predicted movie left out ranks after every entry.
C4_RankedTopN ==
  (IsRecommend /\ call.res.status = "ok") =>
    LET out == call.res.out
        predicted == DOMAIN call.res.scores
    IN /\ Len(out) = Min(call.top_n, Cardinality(predicted))
       /\ Range(out) \subseteq predicted
       /\ \A i \in 1..(Len(out) - 1) : RanksBefore(out[i], out[i + 1])
       /\ \A m \in predicted \ Range(out) : \A i \in DOMAIN out : RanksBefore(out[i], m)

\* Two returned movies with the same predicted score, the one with more
\* rating records first although its id is the larger.
C4_Witness ==
  /\ IsRecommend
  /\ call.res.status = "ok"
  /\ Len(call.res.out) = 2
  /\ PredictedScore(call.res.out[1]) = PredictedScore(call.res.out[2])
  /\ CountOf(call.res.out[1]) > CountOf(call.res.out[2])
  /\ call.res.out[1] > call.res.out[2]

\* C5: a call for a user id that is no key of the user-vector map panics and
\* returns no list.
C5_AbsentUserPanics ==
  (IsRecommend /\ call.user_id \notin DOMAIN uvecs) =>
    (call.res.status = "panic" /\ call.res.out = <<>>)

\* The call for a user without records, beside users that have some.
C5_Witness ==
  /\ IsRecommend
  /\ call.user_id \notin DOMAIN uvecs
  /\ call.user_id \in Users
  /\ DOMAIN uvecs # {}
  /\ call.res.status = "panic"

\* C6: top_movies returns the first min(top_n, number of the user's records)
\* (movie id, rating) pairs of the user's records in the order rating
\* descending, then timestamp descending; no other record is returned.
C6_TopMoviesSorted ==
  IsTopMovies =>
    LET seen == call.res.seen
        out == call.res.out
        mine == RecordsOf(call.user_id)
    IN /\ call.res.status = "ok"
       /\ Len(seen) = Cardinality(mine)
       /\ \A r \in Range(seen) \cup {ratings[i] : i \in mine} :
            Cardinality({i \in DOMAIN seen : seen[i] = r})
              = Cardinality({i \in mine : ratings[i] = r})
       /\ \A i, j \in DOMAIN seen :
            i < j => \/ seen[i].rating > seen[j].rating
                     \/ /\ seen[i].rating = seen[j].rating
                        /\ seen[i].timestamp >= seen[j].timestamp
       /\ Len(out) = Min(call.top_n, Cardinality(mine))
       /\ \A i \in DOMAIN out : out[i] = <<seen[i].movie_id, seen[i].rating>>

\* The user has two records with the same rating, the older one first in the
\* sequence, another user has a record with a higher rating, and the one pair
\* returned is the newer record's.
C6_Witness ==
  /\ IsTopMovies
  /\ call.res.status = "ok"
  /\ call.top_n = 1
  /\ Len(call.res.out) = 1
  /\ \E i, j \in RecordsOf(call.user_id) :
       /\ i < j
       /\ ratings[i].rating = ratings[j].rating
       /\ ratings[i].timestamp < ratings[j].timestamp
       /\ ratings[i].movie_id # ratings[j].movie_id
       /\ call.res.out[1] = <<ratings[j].movie_id, ratings[j].rating>>
  /\ \E k \in DOMAIN ratings :
       /\ ratings[k].user_id # call.user_id
       /\ ratings[k].rating > call.res.out[1][2]

\* The similarity of the selected neighbour u to the target.
SimOf(u) ==
  (CHOOSE e \in Range(call.res.sel) : e.uid = u).sim
\* The records of the selected neighbours on movie m.
NeighbourRecordsOn(m) ==
  {i \in DOMAIN ratings :
     /\ ratings[i].movie_id = m
     /\ ratings[i].user_id \in {e.uid : e \in Range(call.res.sel)}}
\* The target has no rating at movie m: its vector entry is 0.0.
Unrated(m) == uvecs[call.user_id][RankOf(m) + 1] = 0
\* The records of the selected neighbours on movie m, in the order of the
\* sums: neighbour by neighbour as selected, each one's records in sequence
\* order.
TermsOn(m) ==
  LET F[n \in 0..Len(call.res.sel)] ==
        IF n = 0 THEN <<>>
        ELSE F[n - 1] \o SelectSeq([i \in DOMAIN ratings |-> i],
                                   LAMBDA i : /\ ratings[i].movie_id = m
                                              /\ ratings[i].user_id = call.res.sel[n].uid)
  IN F[Len(call.res.sel)]
\* The f32 sum of the terms f[i] over the records i of TermsOn(m).
SumOn(m, f) ==
  LET t == TermsOn(m)
      F[n \in 0..Len(t)] == IF n = 0 THEN 0 ELSE FAdd(F[n - 1], f[t[n]])
  IN F[Len(t)]
\* The similarity-weighted sum of the ratings on m, and the sum of the weights.
WeightedSum(m) ==
  SumOn(m, [i \in DOMAIN ratings |-> FMul(SimOf(ratings[i].user_id), ratings[i].rating)])
WeightSum(m) ==
  SumOn(m, [i \in DOMAIN ratings |-> SimOf(ratings[i].user_id)])

\* C7: every unrated movie with a non-zero weight sum is predicted, with the
\* score (sum of similarity * rating) / (sum of similarity) over the selected
\* neighbours' records of the movie.
C7_WeightedAverage ==
  FoundTarget =>
    \A m \in MovieIds :
      (Unrated(m) /\ NeighbourRecordsOn(m) # {} /\ WeightSum(m) # 0) =>
        \E i \in DOMAIN call.res.preds :
          /\ call.res.preds[i].mid = m
          /\ call.res.preds[i].score = FDiv(WeightedSum(m), WeightSum(m))

\* Two neighbours of different similarity rate an unrated movie differently,
\* and the prediction lies strictly between their ratings.
C7_Witness ==
  /\ FoundTarget
  /\ \E m \in MovieIds : \E i, j \in NeighbourRecordsOn(m) :
       /\ Unrated(m)
       /\ SimOf(ratings[i].user_id) > SimOf(ratings[j].user_id)
       /\ SimOf(ratings[j].user_id) > 0
       /\ ratings[i].rating < ratings[j].rating
       /\ \E p \in DOMAIN call.res.preds :
            /\ call.res.preds[p].mid = m
            /\ call.res.preds[p].score > ratings[i].rating
            /\ call.res.preds[p].score < ratings[j].rating
            /\ call.res.preds[p].score = FDiv(WeightedSum(m), WeightSum(m))

\* The cosine similarity of user u to the target.
SimTo(u) == CosineSimilarity(uvecs[call.user_id], uvecs[u])

\* C8: the contributing users are the first K of the other users by
\* descending similarity, never the target; with fewer than K other users all
\* of them contribute and the call returns a list.
C8_TopKNeighbours ==
  FoundTarget =>
    LET others == DOMAIN uvecs \ {call.user_id}
        sel == call.res.sel
        chosen == {sel[i].uid : i \in DOMAIN sel}
    IN /\ call.user_id \notin chosen
       /\ chosen \subseteq others
       /\ Len(sel) = Min(K, Cardinality(others))
       /\ Cardinality(chosen) = Len(sel)
       /\ \A i, j \in DOMAIN sel : i < j => SimTo(sel[i].uid) >= SimTo(sel[j].uid)
       /\ \A u \in chosen : \A v \in others \ chosen : SimTo(u) >= SimTo(v)
       /\ Cardinality(others) < K => (chosen = others /\ call.res.status = "ok")

\* C9: the keys of the vector map are the users with a record; a vector holds,
\* at a movie's index, the score of the user's last record on the movie, and
\* 0.0 where the user has none.
C9_LastWriteWins ==
  phase # "load" =>
    /\ DOMAIN uvecs = UserIds
    /\ \A u \in UserIds : \A m \in MovieIds :
         uvecs[u][RankOf(m) + 1] =
           IF RecordsOn(u, m) = {} THEN 0
           ELSE LET last == CHOOSE i \in RecordsOn(u, m) : \A j \in RecordsOn(u, m) : j <= i
                IN ratings[last].rating

\* Vectors built from a sequence in which a user rates a movie twice, with
\* different non-zero scores, beside a movie the user has not rated.
C9_Witness ==
  /\ phase # "load"
  /\ \E u \in UserIds : \E i, j \in RecordsOf(u) :
       /\ i < j
       /\ ratings[i].movie_id = ratings[j].movie_id
       /\ ratings[i].rating # ratings[j].rating
       /\ ratings[i].rating # 0
       /\ uvecs[u][RankOf(ratings[j].movie_id) + 1] = ratings[j].rating
       /\ \E m \in MovieIds : RecordsOn(u, m) = {}

\* C10: the movie index maps the distinct movie ids one-to-one onto 0..M-1 in
\* ascending order of the ids, M the number of distinct ids, and every user
\* vector has length M.
C10_IndexBijection ==
  phase # "load" =>
    LET M == Cardinality(MovieIds)
    IN /\ DOMAIN index = MovieIds
       /\ {index[m] : m \in MovieIds} = 0..(M - 1)
       /\ \A a, b \in MovieIds : a < b => index[a] < index[b]
       /\ \A u \in DOMAIN uvecs : Len(uvecs[u]) = M

\* The index of a sequence whose movie ids come unsorted, one of them twice
\* with another between.
C10_Witness ==
  /\ phase # "load"
  /\ Cardinality(MovieIds) = 2
  /\ \E i, j, k \in DOMAIN ratings :
       /\ i < j /\ j < k
       /\ ratings[i].movie_id = ratings[k].movie_id
       /\ ratings[j].movie_id < ratings[i].movie_id
       /\ index[ratings[j].movie_id] = 0
       /\ index[ratings[i].movie_id] = 1
====
